---- MODULE Spec2Model ----
(***************************************************************************)
(* A model of pharmacy_dashboard.py: the Streamlit script that loads the   *)
(* pharmacy workbook (load_data), resolves the sidebar's date window,      *)
(* month and category filters into filtered_data, and computes the         *)
(* figures of the Overview, Revenue, Inventory and ML tabs from it.  Every *)
(* widget change re-runs the whole script, so each action below is one     *)
(* widget change followed by one complete script run.                      *)
(***************************************************************************)
EXTENDS Integers, Sequences, FiniteSets, TLC

VARIABLES
    xlsx,           \* the content of pharmacy.xlsx (three transactional sheets)
    data,           \* what load_data() returned (the cached tables)
    widgets,        \* the sidebar widgets' values (st.session_state)
    start_date,     \* the resolved date window, as calendar days
    end_date,
    filtered_data,  \* the three filtered tables of the last run
    kpi,            \* the figures the Overview tab of the last run displayed
    pc,             \* the last run up to the Overview tab: "done", "raised"
                    \* (an exception stopped it there) or "halted" (st.stop)
    tabs            \* the tabs after the Overview, and where the run stopped

vars == <<xlsx, data, widgets, start_date, end_date, filtered_data, kpi, pc, tabs>>

-----------------------------------------------------------------------------
(* Bounds of the model.                                                    *)

\* A sheet of the workbook has at most MaxRows rows.
MaxRows == 2
\* The operator picks "All" or one of the first MaxMonth months of the year.
MaxMonth == 2
\* A timestamp is a calendar day and a time of day, TicksPerDay ticks a day.
TicksPerDay == 2

\* The one element of a singleton set.  { F(x) : x \in {e} } evaluates e
\* once and hands its value to F.
Only(S) == CHOOSE x \in S : TRUE

Min(a, b) == IF a < b THEN a ELSE b

-----------------------------------------------------------------------------
(* Numbers.  pandas and numpy compute with float64: a value is a finite    *)
(* number (held exactly, as a fraction n/d with d > 0), NaN, +Inf or -Inf. *)
(* Two finite numbers are equal when FEq holds (n/d is not reduced).       *)

Frac(n, d) ==
    IF d < 0 THEN [k |-> "num", n |-> -n, d |-> -d] ELSE [k |-> "num", n |-> n, d |-> d]

Num(n) == [k |-> "num", n |-> n, d |-> 1]
NaN == [k |-> "nan", n |-> 0, d |-> 1]
PosInf == [k |-> "inf", n |-> 1, d |-> 1]
NegInf == [k |-> "inf", n |-> -1, d |-> 1]

IsNaN(x) == x.k = "nan"
IsFinite(x) == x.k = "num"

\* x == y on float64 (False when either is NaN).
FEq(x, y) ==
    \/ x.k = "num" /\ y.k = "num" /\ x.n * y.d = y.n * x.d
    \/ x.k = "inf" /\ y.k = "inf" /\ x.n = y.n

\* x - y on float64: NaN propagates (the operands here are never infinite).
FSub(x, y) ==
    IF IsNaN(x) \/ IsNaN(y) THEN NaN
    ELSE Frac(x.n * y.d - y.n * x.d, x.d * y.d)

\* x > 0 (False for NaN, as every comparison with NaN)
FGt0(x) == x.k # "nan" /\ x.n > 0

\* x / y * 100 where x is a numpy scalar: a division by zero raises nothing
\* (warnings are ignored, line 21) and yields NaN for 0/0, +-Inf otherwise.
Pct(x, y) ==
    IF IsNaN(x) \/ IsNaN(y) THEN NaN
    ELSE IF y.n = 0 THEN (IF x.n = 0 THEN NaN ELSE IF x.n > 0 THEN PosInf ELSE NegInf)
    ELSE Frac(100 * x.n * y.d, x.d * y.n)

\* x / y where x is a numpy scalar, as Pct.
FDiv(x, y) ==
    IF IsNaN(x) \/ IsNaN(y) THEN NaN
    ELSE IF y.n = 0 THEN (IF x.n = 0 THEN NaN ELSE IF x.n > 0 THEN PosInf ELSE NegInf)
    ELSE Frac(x.n * y.d, x.d * y.n)

\* The place of a figure the run did not get to display.
NotShown == [k |-> "none", n |-> 0, d |-> 1]

-----------------------------------------------------------------------------
(* Calendar.  A timestamp has the fields of a pandas Timestamp: year y,    *)
(* month m, day d and a time of day t (a tick of the day).  A date, as     *)
(* datetime.date, is held as its day number: the count of days since       *)
(* 1970-01-01 in the proleptic Gregorian calendar.                         *)

DaysFromCivil(y, m, d) ==
    (IF m <= 2 THEN y - 1 ELSE y) * 365
    + (IF m <= 2 THEN y - 1 ELSE y) \div 4
    - (IF m <= 2 THEN y - 1 ELSE y) \div 100
    + (IF m <= 2 THEN y - 1 ELSE y) \div 400
    + (153 * (IF m > 2 THEN m - 3 ELSE m + 9) + 2) \div 5 + d - 1
    - 719468

Timestamp(y, m, d, t) == [y |-> y, m |-> m, d |-> d, t |-> t]

\* The null timestamp pd.to_datetime(..., errors='coerce') yields.
NaT == [y |-> 0, m |-> 0, d |-> 0, t |-> 0]

\* Timestamp.date() / Series.dt.date: the calendar day, time of day dropped.
DateOf(ts) == DaysFromCivil(ts.y, ts.m, ts.d)

\* The position of a timestamp on the time line, in ticks.
Ticks(ts) == DateOf(ts) * TicksPerDay + ts.t

\* calendar.month_name[1..12]
month_name ==
    <<"January", "February", "March", "April", "May", "June", "July",
      "August", "September", "October", "November", "December">>

\* list(calendar.month_name).index(month_preset)
MonthNumber(name) == CHOOSE i \in 1..12 : month_name[i] = name

-----------------------------------------------------------------------------
(* The workbook.  A Date cell holds a timestamp, is blank, or holds text   *)
(* that is no date; a numeric cell holds a number or is blank (NaN).       *)

DateCell(y, m, d, t) == [kind |-> "ts", ts |-> Timestamp(y, m, d, t)]
BlankDate == [kind |-> "blank", ts |-> NaT]
TextDate == [kind |-> "text", ts |-> NaT]

\* Rows the "Daily Income" sheet is drawn from, in sheet order.
DailyMaster ==
    << [Date |-> DateCell(2023, 1, 20, 0), Total |-> Num(-3), cash |-> Num(2),
        visa |-> Num(1), due_amount |-> Num(1), Gross_Income_sys |-> Num(3)],
       [Date |-> BlankDate, Total |-> NaN, cash |-> NaN,
        visa |-> NaN, due_amount |-> NaN, Gross_Income_sys |-> NaN],
       [Date |-> DateCell(2024, 2, 1, 1), Total |-> Num(3), cash |-> NaN,
        visa |-> Num(2), due_amount |-> Num(1), Gross_Income_sys |-> Num(4)],
       [Date |-> DateCell(2024, 1, 25, 0), Total |-> Num(0), cash |-> Num(1),
        visa |-> Num(0), due_amount |-> Num(0), Gross_Income_sys |-> Num(0)],
       [Date |-> TextDate, Total |-> Num(2), cash |-> Num(2),
        visa |-> Num(0), due_amount |-> Num(0), Gross_Income_sys |-> Num(2)] >>

\* Rows the "Inventory Purchases" sheet is drawn from.
InventoryMaster ==
    << [Date |-> DateCell(2024, 1, 25, 0), id |-> "INV-1", Invoice_ID |-> <<"A", "1">>,
        Invoice_Company |-> "Acme",
        Inventory_Type |-> "Drugs", Invoice_Amount |-> Num(2), Credit_Limit |-> Num(0)],
       [Date |-> DateCell(2024, 2, 1, 1), id |-> "INV-2", Invoice_ID |-> <<"B", "1">>,
        Invoice_Company |-> "Beta",
        Inventory_Type |-> "Cosmetics", Invoice_Amount |-> Num(3), Credit_Limit |-> Num(5)],
       [Date |-> DateCell(2024, 3, 5, 0), id |-> "INV-3", Invoice_ID |-> <<"a", "2">>,
        Invoice_Company |-> "Acme",
        Inventory_Type |-> "Cosmetics", Invoice_Amount |-> NaN, Credit_Limit |-> NaN] >>

\* Rows the "Expenses" sheet is drawn from.
ExpensesMaster ==
    << [Date |-> DateCell(2024, 1, 25, 0), Expense_Type |-> "Rent", Expense_Amount |-> Num(1)],
       [Date |-> DateCell(2024, 2, 1, 1), Expense_Type |-> "Salary", Expense_Amount |-> Num(2)],
       [Date |-> BlankDate, Expense_Type |-> "Rent", Expense_Amount |-> NaN] >>

\* The sequence of the elements of the set of indices S, in increasing order.
Ascending(S) ==
    CHOOSE f \in [1..Cardinality(S) -> S] :
        \A i, j \in 1..Cardinality(S) : i < j => f[i] < f[j]

\* Every selection of at most n rows of master, in sheet order.
SubSheets(master, n) ==
    { [j \in 1..Cardinality(S) |-> master[Ascending(S)[j]]] :
        S \in { T \in SUBSET (1..Len(master)) : Cardinality(T) <= n } }

\* Every leading part of master of at most n rows.
LeadingSheets(master, n) ==
    { SubSeq(master, 1, l) : l \in 0..Min(n, Len(master)) }

\* What a workbook at fault lacks: the file itself, one of its four sheets,
\* the "Total" column (which load_data reads, line 86) or the "cash" column
\* (which the Overview tab is the first to read, line 279).  The cells of a
\* missing column are never read.
Faults == {"file_missing", "sheet_absent", "Total_missing", "cash_missing"}

SoundWorkbooks ==
    [daily : SubSheets(DailyMaster, MaxRows),
     inventory : LeadingSheets(InventoryMaster, MaxRows),
     expenses : LeadingSheets(ExpensesMaster, MaxRows),
     fault : {"none"}]

FaultyWorkbooks ==
    [daily : {SubSeq(DailyMaster, 3, 4)},
     inventory : {SubSeq(InventoryMaster, 1, 2)},
     expenses : {SubSeq(ExpensesMaster, 1, 2)},
     fault : Faults]

Workbooks == SoundWorkbooks \cup FaultyWorkbooks

\* A second family of workbooks: a ledger of LedgerDays consecutive days of
\* January 2024, one daily-income row a day, with two purchases and two
\* expenses on the last day.
LedgerTotals == <<0, 1, 1, 2, 3, 4>>

LedgerDays == Len(LedgerTotals)

LedgerDaily ==
    [i \in 1..LedgerDays |->
        [Date |-> DateCell(2024, 1, i, 0), Total |-> Num(LedgerTotals[i]),
         cash |-> Num(LedgerTotals[i]), visa |-> Num(0), due_amount |-> Num(0),
         Gross_Income_sys |-> Num(LedgerTotals[i])]]

LedgerInventory ==
    << [Date |-> DateCell(2024, 1, LedgerDays, 0), id |-> "INV-1",
        Invoice_ID |-> <<"A", "1">>, Invoice_Company |-> "Acme",
        Inventory_Type |-> "Drugs", Invoice_Amount |-> Num(4), Credit_Limit |-> Num(10)],
       [Date |-> DateCell(2024, 1, LedgerDays, 0), id |-> "INV-2",
        Invoice_ID |-> <<"B", "1">>, Invoice_Company |-> "Acme",
        Inventory_Type |-> "Cosmetics", Invoice_Amount |-> Num(2), Credit_Limit |-> Num(0)] >>

LedgerExpenses ==
    << [Date |-> DateCell(2024, 1, LedgerDays, 0), Expense_Type |-> "Rent",
        Expense_Amount |-> Num(3)],
       [Date |-> DateCell(2024, 1, LedgerDays, 0), Expense_Type |-> "Salary",
        Expense_Amount |-> Num(2)] >>

\* The workbooks whose daily-income sheet holds the last days of the ledger.
LedgerWorkbooks ==
    [daily : { SubSeq(LedgerDaily, a, LedgerDays) : a \in 1..LedgerDays },
     inventory : {LedgerInventory},
     expenses : {LedgerExpenses},
     fault : {"none"}]

-----------------------------------------------------------------------------
(* load_data (lines 59-99).                                                *)

\* pd.to_datetime(df["Date"], errors='coerce'): a timestamp, or NaT for a
\* blank cell and for text that is no date.
ToDatetime(cell) == IF cell.kind = "ts" THEN cell.ts ELSE NaT

\* Series.fillna(0) on one value.
FillNa(x) == IF IsNaN(x) THEN Num(0) ELSE x

\* The preprocessing loop (lines 76-83) on each sheet: the parsed "date"
\* column is added and the numeric columns are filled with 0.  idx is the
\* row's index label, its position in the sheet.
PreprocessDaily(sheet) ==
    [i \in 1..Len(sheet) |->
        [idx |-> i, Date |-> sheet[i].Date, date |-> ToDatetime(sheet[i].Date),
         Total |-> FillNa(sheet[i].Total), cash |-> FillNa(sheet[i].cash),
         visa |-> FillNa(sheet[i].visa), due_amount |-> FillNa(sheet[i].due_amount),
         Gross_Income_sys |-> FillNa(sheet[i].Gross_Income_sys)]]

PreprocessInventory(sheet) ==
    [i \in 1..Len(sheet) |->
        [idx |-> i, Date |-> sheet[i].Date, date |-> ToDatetime(sheet[i].Date),
         id |-> sheet[i].id, Invoice_ID |-> sheet[i].Invoice_ID,
         Invoice_Company |-> sheet[i].Invoice_Company,
         Inventory_Type |-> sheet[i].Inventory_Type,
         Invoice_Amount |-> FillNa(sheet[i].Invoice_Amount),
         Credit_Limit |-> FillNa(sheet[i].Credit_Limit)]]

PreprocessExpenses(sheet) ==
    [i \in 1..Len(sheet) |->
        [idx |-> i, Date |-> sheet[i].Date, date |-> ToDatetime(sheet[i].Date),
         Expense_Type |-> sheet[i].Expense_Type,
         Expense_Amount |-> FillNa(sheet[i].Expense_Amount)]]

\* df.dropna(subset=["Date"]) (lines 90-92): the rows whose Date CELL is
\* blank are dropped; the parsed "date" column is not looked at.
DropNaDate(table) == SelectSeq(table, LAMBDA r : r.Date.kind # "blank")

\* The value of a column (the array of the values of a table's rows) at
\* index label i, as pandas aligns two Series: NaN where the label is absent.
AtLabel(column, i) == IF i \in DOMAIN column THEN column[i] ELSE NaN

\* A variant of NetIncomeColumn that aligns the three tables after the rows
\* with a blank Date were dropped and the remaining rows renumbered.
NetIncomeAfterDrop(daily, expenses, inventory) ==
    LET e == DropNaDate(expenses)
        v == DropNaDate(inventory)
        pos(i) == Cardinality({j \in 1..i : daily[j].Date.kind # "blank"})
    IN  [i \in 1..Len(daily) |->
            FSub(FSub(daily[i].Total,
                      AtLabel([j \in 1..Len(e) |-> e[j].Expense_Amount], pos(i))),
                 AtLabel([j \in 1..Len(v) |-> v[j].Invoice_Amount], pos(i)))]

\* Line 86: Total - Expense Amount - Invoice Amount, the three Series
\* aligned on their index labels (the rows' positions in their sheets).
NetIncomeColumn(daily, expenses, inventory) ==
    [i \in 1..Len(daily) |->
        FSub(FSub(daily[i].Total,
                  AtLabel([j \in 1..Len(expenses) |-> expenses[j].Expense_Amount], i)),
             AtLabel([j \in 1..Len(inventory) |-> inventory[j].Invoice_Amount], i))]

\* Line 87: Total - Gross Income_sys of the same row.
DeficitColumn(daily) ==
    [i \in 1..Len(daily) |-> FSub(daily[i].Total, daily[i].Gross_Income_sys)]

\* Lines 85-87: the two derived columns are added to the daily-income table.
WithDerived(daily, expenses, inventory) ==
    LET net == NetIncomeColumn(daily, expenses, inventory)
        def == DeficitColumn(daily)
    IN  [i \in 1..Len(daily) |->
            [idx |-> daily[i].idx, Date |-> daily[i].Date, date |-> daily[i].date,
             Total |-> daily[i].Total, cash |-> daily[i].cash, visa |-> daily[i].visa,
             due_amount |-> daily[i].due_amount,
             Gross_Income_sys |-> daily[i].Gross_Income_sys,
             net_income |-> net[i], deficit |-> def[i]]]

\* load_data(): the returned tables (the "lists" sheet holds no transactions
\* and is left out).
load_data(wb) ==
    LET d == PreprocessDaily(wb.daily)
        v == PreprocessInventory(wb.inventory)
        e == PreprocessExpenses(wb.expenses)
    IN  [daily_income |-> DropNaDate(WithDerived(d, e, v)),
         inventory_purchases |-> DropNaDate(v),
         expenses |-> DropNaDate(e)]

\* A variant of LoadRaises in which only the missing file is an error.
LoadRaisesWithoutFile(wb) == wb.fault = "file_missing"

\* load_data() raises: pd.ExcelFile finds no file (line 62), pd.read_excel no
\* sheet (lines 65-68), or the derived columns no "Total" (line 86).
LoadRaises(wb) == wb.fault \in {"file_missing", "sheet_absent", "Total_missing"}

\* No table: load_data() returned nothing.
NoData == [daily_income |-> <<>>, inventory_purchases |-> <<>>, expenses |-> <<>>]

\* Lines 102-106: the tables the script goes on with, if it does.
LoadGuard(wb) == IF LoadRaises(wb) THEN NoData ELSE load_data(wb)

-----------------------------------------------------------------------------
(* The sidebar (lines 109-213): the date window, the month and the         *)
(* category filters.                                                       *)

\* The calendar days of a table's "date" column, NaT skipped.
ValidDays(table) ==
    { DateOf(table[i].date) : i \in { j \in 1..Len(table) : table[j].date # NaT } }

\* data["daily_income"]["date"].max().date() and .min().date(), for a column
\* that holds a timestamp (NaT values are skipped).
MaxDay(table) == CHOOSE x \in ValidDays(table) : \A y \in ValidDays(table) : y <= x
MinDay(table) == CHOOSE x \in ValidDays(table) : \A y \in ValidDays(table) : x <= y

\* The options of the "Quick Select" box (line 118).
DatePresets ==
    {"Custom", "Last 7 Days", "Last 30 Days", "Last 90 Days", "Year to Date", "All Time"}

\* datetime.date(end_date.year, 1, 1) for the day of the timestamp ts.
StartOfYear(ts) == DaysFromCivil(ts.y, 1, 1)

\* The latest and the earliest timestamp of the column.
MaxTimestamp(table) ==
    CHOOSE i \in 1..Len(table) :
        /\ table[i].date # NaT
        /\ \A j \in 1..Len(table) :
              table[j].date # NaT => Ticks(table[j].date) <= Ticks(table[i].date)
MinTimestamp(table) ==
    CHOOSE i \in 1..Len(table) :
        /\ table[i].date # NaT
        /\ \A j \in 1..Len(table) :
              table[j].date # NaT => Ticks(table[i].date) <= Ticks(table[j].date)

\* A variant of PresetStart whose "Year to Date" starts with the year of the
\* first daily-income date.
PresetStartFromMin(date_preset, daily) ==
    CASE date_preset = "Last 7 Days" -> MaxDay(daily) - 7
      [] date_preset = "Last 30 Days" -> MaxDay(daily) - 30
      [] date_preset = "Last 90 Days" -> MaxDay(daily) - 90
      [] date_preset = "Year to Date" -> StartOfYear(daily[MinTimestamp(daily)].date)
      [] date_preset = "All Time" -> MinDay(daily)

\* Lines 136-142: the start of a named preset's window.
PresetStart(date_preset, daily) ==
    CASE date_preset = "Last 7 Days" -> MaxDay(daily) - 7
      [] date_preset = "Last 30 Days" -> MaxDay(daily) - 30
      [] date_preset = "Last 90 Days" -> MaxDay(daily) - 90
      [] date_preset = "Year to Date" -> StartOfYear(daily[MaxTimestamp(daily)].date)
      [] date_preset = "All Time" -> MinDay(daily)

\* Line 135: the end of a named preset's window.
PresetEnd(daily) == MaxDay(daily)

\* A variant of ResolveWindow that takes the one date of an unfinished
\* selection for both ends of the window.
ResolveWindowOneDay(date_preset, date_range, daily) ==
    IF date_preset = "Custom"
    THEN IF Len(date_range) = 2 THEN <<date_range[1], date_range[2]>>
         ELSE IF Len(date_range) = 1 THEN <<date_range[1], date_range[1]>>
         ELSE <<MinDay(daily), MaxDay(daily)>>
    ELSE <<PresetStart(date_preset, daily), PresetEnd(daily)>>

\* Lines 122-142: <<start_date, end_date>>.  date_range is what st.date_input
\* returned: a tuple of one date (a range being picked) or of two.
ResolveWindow(date_preset, date_range, daily) ==
    IF date_preset = "Custom"
    THEN IF Len(date_range) = 2
         THEN <<date_range[1], date_range[2]>>
         ELSE <<MinDay(daily), MaxDay(daily)>>
    ELSE <<PresetStart(date_preset, daily), PresetEnd(daily)>>

\* A variant of InWindow whose window leaves its first day out.
InWindowAfterStart(ts, start, end) ==
    ts # NaT /\ DateOf(ts) > start /\ DateOf(ts) <= end

\* A variant of InWindow that compares the timestamp, time of day included,
\* with the window's two dates taken at midnight.
InWindowTimestamps(ts, start, end) ==
    ts # NaT /\ Ticks(ts) >= start * TicksPerDay /\ Ticks(ts) <= end * TicksPerDay

\* (date.dt.date >= start_date) & (date.dt.date <= end_date) for one row
\* (lines 174-175, 157-158).  The comparison of a NaT with a date is False.
InWindow(ts, start, end) ==
    ts # NaT /\ DateOf(ts) >= start /\ DateOf(ts) <= end

\* date.dt.month == month_number for one row (NaN, hence False, for a NaT).
InMonth(ts, month_number) == ts # NaT /\ ts.m = month_number

\* A variant of DateFilter whose mask is shifted by one row against the
\* table: row i is kept when row i - 1 satisfies the predicates.
DateFilterShifted(table, month_preset, start, end) ==
    LET keep(r) ==
            /\ month_preset # "All" => InMonth(r.date, MonthNumber(month_preset))
            /\ InWindow(r.date, start, end)
        idx == SelectSeq([i \in 1..Len(table) |-> i],
                         LAMBDA i : i > 1 /\ keep(table[i - 1]))
    IN  [j \in 1..Len(idx) |-> table[idx[j]]]

\* A variant of DateFilter in which a selected month replaces the window.
DateFilterMonthOnly(table, month_preset, start, end) ==
    IF month_preset # "All"
    THEN SelectSeq(table, LAMBDA r : InMonth(r.date, MonthNumber(month_preset)))
    ELSE SelectSeq(table, LAMBDA r : InWindow(r.date, start, end))

\* Lines 152-185 on one table: table[mask] keeps the rows whose mask entry
\* is True, in the table's order.
DateFilter(table, month_preset, start, end) ==
    IF month_preset # "All"
    THEN SelectSeq(table, LAMBDA r : /\ InMonth(r.date, MonthNumber(month_preset))
                                     /\ InWindow(r.date, start, end))
    ELSE SelectSeq(table, LAMBDA r : InWindow(r.date, start, end))

\* Lines 200-208: the inventory-type filter, then the company filter.
InventoryFilter(table, selected_type, selected_company) ==
    SelectSeq(
        SelectSeq(table, LAMBDA r : selected_type # "All" => r.Inventory_Type = selected_type),
        LAMBDA r : selected_company # "All" => r.Invoice_Company = selected_company)

\* Lines 210-213: the expense-type filter.
ExpenseFilter(table, selected_expense) ==
    SelectSeq(table, LAMBDA r : selected_expense # "All" => r.Expense_Type = selected_expense)

\* A variant of FilterTables that keeps the view consistent across tables:
\* with a category selected, daily-income and expense rows are kept only for
\* the days on which a selected inventory purchase remains.
FilterTablesJoined(d, start, end, w) ==
    LET inv == InventoryFilter(DateFilter(d.inventory_purchases, w.month_preset, start, end),
                               w.selected_type, w.selected_company)
        days == ValidDays(inv)
        on(r) == (w.selected_type # "All" \/ w.selected_company # "All")
                    => DateOf(r.date) \in days
    IN  [daily_income |->
            SelectSeq(DateFilter(d.daily_income, w.month_preset, start, end), on),
         inventory |-> inv,
         expenses |->
            SelectSeq(ExpenseFilter(DateFilter(d.expenses, w.month_preset, start, end),
                                    w.selected_expense), on)]

\* Lines 152-213: filtered_data of the tables d under the window
\* [start, end] and the selections w.
FilterTables(d, start, end, w) ==
    [daily_income |-> DateFilter(d.daily_income, w.month_preset, start, end),
     inventory |->
        InventoryFilter(DateFilter(d.inventory_purchases, w.month_preset, start, end),
                        w.selected_type, w.selected_company),
     expenses |->
        ExpenseFilter(DateFilter(d.expenses, w.month_preset, start, end),
                      w.selected_expense)]

\* The options of the three category boxes (lines 188-197), "All" first.
TypeOptions(d) ==
    {"All"} \cup { d.inventory_purchases[i].Inventory_Type : i \in 1..Len(d.inventory_purchases) }
CompanyOptions(d) ==
    {"All"} \cup { d.inventory_purchases[i].Invoice_Company : i \in 1..Len(d.inventory_purchases) }
ExpenseOptions(d) ==
    {"All"} \cup { d.expenses[i].Expense_Type : i \in 1..Len(d.expenses) }

\* The options of the "Month" box (line 148) the operator picks among.
MonthOptions == {"All"} \cup { month_name[i] : i \in 1..Min(MaxMonth, 12) }

-----------------------------------------------------------------------------
(* The Overview tab's KPIs (lines 234-351) and the Inventory tab's credit  *)
(* metrics (lines 1043-1065).                                              *)

\* The sum of the first i values that are not NaN.  The amounts of the
\* tables are whole numbers of the currency's smallest unit.
RECURSIVE SumUpTo(_, _)
SumUpTo(values, i) ==
    IF i = 0 THEN 0
    ELSE (IF values[i].k = "num" THEN values[i].n ELSE 0) + SumUpTo(values, i - 1)

\* Series.sum(): NaN values are skipped; 0 for an empty column.
SumSeq(values) == Num(SumUpTo(values, Len(values)))

\* Series.mean() of a non-empty column.
MeanSeq(values) == Frac(SumUpTo(values, Len(values)), Len(values))

\* (x / total * 100) if total > 0 else 0
GuardedPct(x, total) == IF FGt0(total) THEN Pct(x, total) ELSE Num(0)

\* A variant of ProfitMargin with the operands of the division exchanged.
ProfitMarginSwapped(net_profit, total_income) ==
    IF FGt0(total_income) THEN Pct(total_income, net_profit) ELSE Num(0)

\* Line 307.
ProfitMargin(net_profit, total_income) ==
    IF FGt0(total_income) THEN Pct(net_profit, total_income) ELSE Num(0)

\* Line 1065.
CreditUtilization(total_purchases, total_credit) ==
    IF FGt0(total_credit) THEN Pct(total_purchases, total_credit) ELSE Num(0)

\* The health notices of the Overview tab (lines 372-427).

\* A variant of ProfitNotice for which a margin of exactly 20 is critical
\* and one of exactly 50 needs improvement.
ProfitNoticeInclusive(profit_margin) ==
    IF profit_margin.n <= 20 * profit_margin.d THEN "critical"
    ELSE IF profit_margin.n <= 50 * profit_margin.d THEN "warning"
    ELSE "healthy"

\* Lines 379-393.
ProfitNotice(profit_margin) ==
    IF profit_margin.n < 20 * profit_margin.d THEN "critical"
    ELSE IF profit_margin.n < 50 * profit_margin.d THEN "warning"
    ELSE "healthy"

\* Lines 396-410.
ExpenseNotice(expense_ratio) ==
    IF expense_ratio.n > 50 * expense_ratio.d THEN "critical"
    ELSE IF expense_ratio.n > 30 * expense_ratio.d THEN "warning"
    ELSE "healthy"

\* Lines 413-427.
InventoryNotice(purchase_to_income_ratio) ==
    IF purchase_to_income_ratio.n > 60 * purchase_to_income_ratio.d THEN "critical"
    ELSE IF purchase_to_income_ratio.n > 40 * purchase_to_income_ratio.d THEN "healthy"
    ELSE "warning"

\* The sums and the mean taken from filtered_data fd (lines 234-249, 252,
\* 279-281, 296, 1043-1044).
Totals(fd) ==
    [total_income |->
        IF fd.daily_income # <<>>
        THEN SumSeq([i \in 1..Len(fd.daily_income) |-> fd.daily_income[i].Total])
        ELSE Num(0),
     avg_daily_revenue |->
        IF fd.daily_income # <<>>
        THEN MeanSeq([i \in 1..Len(fd.daily_income) |-> fd.daily_income[i].Total])
        ELSE Num(0),
     total_expenses |->
        IF fd.expenses # <<>>
        THEN SumSeq([i \in 1..Len(fd.expenses) |-> fd.expenses[i].Expense_Amount])
        ELSE Num(0),
     total_purchases |->
        IF fd.inventory # <<>>
        THEN SumSeq([i \in 1..Len(fd.inventory) |-> fd.inventory[i].Invoice_Amount])
        ELSE Num(0),
     money_deficit |->
        IF fd.daily_income # <<>>
        THEN SumSeq([i \in 1..Len(fd.daily_income) |-> fd.daily_income[i].deficit])
        ELSE Num(0),
     total_cash |-> SumSeq([i \in 1..Len(fd.daily_income) |-> fd.daily_income[i].cash]),
     total_visa |-> SumSeq([i \in 1..Len(fd.daily_income) |-> fd.daily_income[i].visa]),
     total_due |-> SumSeq([i \in 1..Len(fd.daily_income) |-> fd.daily_income[i].due_amount]),
     system_income |->
        SumSeq([i \in 1..Len(fd.daily_income) |-> fd.daily_income[i].Gross_Income_sys]),
     total_credit |-> SumSeq([i \in 1..Len(fd.inventory) |-> fd.inventory[i].Credit_Limit])]

\* Line 251.
NetProfit(s) == FSub(FSub(s.total_income, s.total_expenses), s.total_purchases)

\* The figures displayed, from the sums s.
KpiOf(s) ==
    [total_income |-> s.total_income,
     avg_daily_revenue |-> s.avg_daily_revenue,
     total_expenses |-> s.total_expenses,
     total_purchases |-> s.total_purchases,
     net_profit |-> NetProfit(s),
     money_deficit |-> s.money_deficit,
     \* the deltas of the first KPI row (lines 257-271)
     revenue_pct |-> GuardedPct(s.total_income, s.total_income),
     expenses_pct |-> GuardedPct(s.total_expenses, s.total_income),
     purchases_pct |-> GuardedPct(s.total_purchases, s.total_income),
     margin_pct |-> GuardedPct(NetProfit(s), s.total_income),
     deficit_pct |-> GuardedPct(s.money_deficit, s.total_income),
     \* the payment-method row (lines 279-297): no guard
     total_cash |-> s.total_cash,
     total_visa |-> s.total_visa,
     total_due |-> s.total_due,
     cash_pct |-> Pct(s.total_cash, s.total_income),
     visa_pct |-> Pct(s.total_visa, s.total_income),
     due_pct |-> Pct(s.total_due, s.total_income),
     system_pct |-> Pct(s.system_income, s.total_income),
     \* the health gauges (lines 307, 329, 351)
     profit_margin |-> ProfitMargin(NetProfit(s), s.total_income),
     expense_ratio |-> GuardedPct(s.total_expenses, s.total_income),
     purchase_to_income_ratio |-> GuardedPct(s.total_purchases, s.total_income),
     \* the Inventory tab (lines 1043-1065)
     total_credit |-> s.total_credit,
     credit_utilization |-> CreditUtilization(s.total_purchases, s.total_credit),
     \* the notices (lines 372-427)
     notices |->
        [profit |-> ProfitNotice(ProfitMargin(NetProfit(s), s.total_income)),
         expense |-> ExpenseNotice(GuardedPct(s.total_expenses, s.total_income)),
         inventory |-> InventoryNotice(GuardedPct(s.total_purchases, s.total_income))]]

ComputeKpi(fd) == Only({ KpiOf(s) : s \in {Totals(fd)} })


-----------------------------------------------------------------------------
(* The Revenue tab (lines 767-911).                                        *)

\* The "Total" column of a daily-income view.
TotalColumn(view) == [i \in 1..Len(view) |-> view[i].Total]

\* (date.max() - date.min()).days: the whole days between the earliest and
\* the latest timestamp of a view that holds a row.
SpanDays(view) ==
    (Ticks(view[MaxTimestamp(view)].date) - Ticks(view[MinTimestamp(view)].date))
        \div TicksPerDay

\* Line 779: total_revenue / (days / 30).  The max and min of an empty
\* column are NaT, whose .days is NaN.
MonthlyAverage(view) ==
    IF view = <<>> THEN NaN
    ELSE FDiv(SumSeq(TotalColumn(view)), Frac(SpanDays(view), 30))

\* The place of date.dt.strftime('%Y-%m') in the sorted group keys.
MonthKey(ts) == ts.y * 12 + ts.m

\* The sum of Total over the rows of one year-month.
MonthRevenue(view, key) ==
    SumSeq([i \in 1..Len(view) |->
               IF MonthKey(view[i].date) = key THEN view[i].Total ELSE Num(0)])

\* Lines 805-806.
MomGrowth(view) ==
    LET keys == { MonthKey(view[i].date) : i \in 1..Len(view) }
        last == CHOOSE k \in keys : \A j \in keys : j <= k
        prior == CHOOSE k \in keys \ {last} : \A j \in keys \ {last} : j <= k
    IN  IF Cardinality(keys) >= 2
        THEN Pct(FSub(MonthRevenue(view, last), MonthRevenue(view, prior)),
                 MonthRevenue(view, prior))
        ELSE Num(0)

\* Line 856: Total.std() / Total.mean().  std() is NaN for fewer than two
\* values.  A finite figure is held as its square, with the figure's sign
\* (the square root of a fraction is no fraction).
RevenueVolatility(view) ==
    LET n == Len(view)
        s1 == SumUpTo(TotalColumn(view), n)
        s2 == SumUpTo([i \in 1..n |-> Num(view[i].Total.n * view[i].Total.n)], n)
    IN  IF n < 2 THEN NaN
        ELSE IF s1 = 0 THEN (IF n * s2 - s1 * s1 = 0 THEN NaN ELSE PosInf)
        ELSE Frac((IF s1 > 0 THEN 1 ELSE -1) * (n * s2 - s1 * s1) * n, (n - 1) * s1 * s1)

\* The labels of pd.qcut (line 902), lowest segment first.
SegmentLabels == <<"Low", "Medium-Low", "Medium-High", "High">>

\* The k-th smallest of the whole numbers xs (k in 1..Len(xs)).
KthSmallest(xs, k) ==
    CHOOSE v \in { xs[i] : i \in 1..Len(xs) } :
        /\ Cardinality({ i \in 1..Len(xs) : xs[i] < v }) < k
        /\ k <= Cardinality({ i \in 1..Len(xs) : xs[i] <= v })

\* Four times the quantile of order j/4 of xs, by linear interpolation
\* between the two neighbouring order statistics (Series.quantile).
QuantileEdge(xs, j) ==
    LET pos == (Len(xs) - 1) * j
    IN  IF pos % 4 = 0
        THEN 4 * KthSmallest(xs, pos \div 4 + 1)
        ELSE (4 - (pos % 4)) * KthSmallest(xs, pos \div 4 + 1)
             + (pos % 4) * KthSmallest(xs, pos \div 4 + 2)

\* The segment of the value x: bins.searchsorted(x, side="left"), the lowest
\* edge included in the first segment.  edges holds four times the edges.
SegmentOf(x, edges) ==
    LET below == Cardinality({ j \in 1..5 : edges[j] < 4 * x })
    IN  SegmentLabels[IF below = 0 THEN 1 ELSE below]

\* pd.qcut(Total, q=4, labels=[...]) (lines 900-902): the label of every row,
\* or ValueError ("Bin edges must be unique") when two of the five edges
\* coincide, as they do for an empty column, whose edges are all NaN.
QCutOn(xs, edges) ==
    IF \E j, k \in 1..5 : j < k /\ edges[j] = edges[k]
    THEN [raised |-> TRUE, labels |-> <<>>]
    ELSE [raised |-> FALSE, labels |-> [i \in 1..Len(xs) |-> SegmentOf(xs[i], edges)]]

QCut(xs) ==
    IF xs = <<>> THEN [raised |-> TRUE, labels |-> <<>>]
    ELSE Only({ QCutOn(xs, edges) : edges \in {[j \in 1..5 |-> QuantileEdge(xs, j - 1)]} })

-----------------------------------------------------------------------------
(* The ML tab (lines 1389-1727).                                           *)

\* The metrics a Prophet model is fit for (lines 1421-1426).
metrics_to_predict == {"Revenue", "Expenses", "Purchases", "Net Profit"}

\* groupby("date")[column].sum().reindex(daily_metrics['date']).fillna(0) at
\* the timestamp ts (lines 1404-1405): the rows of the same timestamp summed.
AmountOn(table, column, ts) ==
    SumSeq([i \in 1..Len(table) |-> IF table[i].date = ts THEN table[i][column] ELSE Num(0)])

\* daily_metrics (lines 1399-1416): one row for each row of the filtered
\* daily-income table, in its order.
DailyMetrics(fd) ==
    [i \in 1..Len(fd.daily_income) |->
        [date |-> fd.daily_income[i].date,
         revenue |-> fd.daily_income[i].Total,
         expenses |-> AmountOn(fd.expenses, "Expense_Amount", fd.daily_income[i].date),
         purchases |-> AmountOn(fd.inventory, "Invoice_Amount", fd.daily_income[i].date),
         net_profit |->
            FSub(FSub(fd.daily_income[i].Total,
                      AmountOn(fd.expenses, "Expense_Amount", fd.daily_income[i].date)),
                 AmountOn(fd.inventory, "Invoice_Amount", fd.daily_income[i].date))]]

\* The least number of rows Prophet.fit accepts (it raises ValueError below).
MinHistory == 2

\* Line 1550: ((last_forecast - last_actual) / last_actual) * 100.
GrowthRate(last_forecast, last_actual) == Pct(FSub(last_forecast, last_actual), last_actual)

\* Lines 1607-1608: the current cost, over the last prediction_days rows
\* (every row: a view is shorter than the slider's least value, 7).
CurrentTotalCost(daily_metrics) ==
    Num(SumUpTo([i \in 1..Len(daily_metrics) |-> daily_metrics[i].expenses],
                Len(daily_metrics))
        + SumUpTo([i \in 1..Len(daily_metrics) |-> daily_metrics[i].purchases],
                  Len(daily_metrics)))

\* Series.shift(n): the values moved n places down (up for n < 0), the
\* places left free holding NaN.
Shift(column, n) ==
    [i \in 1..Len(column) |-> IF i - n \in 1..Len(column) THEN column[i - n] ELSE NaN]

\* The lags of the cross-correlation run from -MaxLag to MaxLag (the
\* "Lag Range" slider, line 1690).
MaxLag == 1

\* Lines 1705-1712: the places the compared series is shifted by at a lag.
CcfShift(lag) == IF lag < 0 THEN -lag ELSE lag

-----------------------------------------------------------------------------
(* One run of the script over the cached tables d with the widgets w.      *)

\* ---------------------------------------------------------------------
\* The Search tab (lines 1730-1927).

\* str.contains(case=False) compares letters without their case.
Lower(c) == CASE c = "A" -> "a" [] c = "B" -> "b" [] OTHER -> c

\* term occurs in invoice, a text of characters (line 1798).
Contains(invoice, term) ==
    \E at \in 0..(Len(invoice) - Len(term)) :
        \A j \in 1..Len(term) : Lower(invoice[at + j]) = Lower(term[j])

\* What the operator can type in the "Invoice ID" box; <<>> is the empty box.
SearchTerms == {<<"a">>, <<"B", "2">>}

\* x <= y on floats: False when either is NaN.
FLe(x, y) == x.k = "num" /\ y.k = "num" /\ x.n * y.d <= y.n * x.d

\* filtered_data["inventory"]["Invoice Amount"].max(): NaN on an empty table.
MaxAmount(inventory) ==
    IF inventory = <<>> THEN NaN
    ELSE Only({ inventory[i].Invoice_Amount : i \in
                  { i \in 1..Len(inventory) :
                      \A j \in 1..Len(inventory) :
                          FLe(inventory[j].Invoice_Amount, inventory[i].Invoice_Amount) } })

\* Lines 1793-1810 with the company and type boxes at "All" and the amount
\* boxes at their defaults, 0.0 and the largest amount: the rows of a copy
\* of the filtered inventory whose Invoice ID contains invoice_id and whose
\* amount lies between the two.
SearchResults(inventory, invoice_id) ==
    SelectSeq(IF invoice_id = <<>> THEN inventory
              ELSE SelectSeq(inventory, LAMBDA r : Contains(r.Invoice_ID, invoice_id)),
              LAMBDA r : /\ FLe(Num(0), r.Invoice_Amount)
                         /\ FLe(r.Invoice_Amount, MaxAmount(inventory)))

\* The buttons that build a report, by the line of their st.button, and the
\* place a run must get past to show each.
ExportButtons ==
    {"Generate Complete Dashboard Report", "Export Detailed Revenue Report",
     "Generate Payment Analysis Report", "Generate Growth Analysis Report",
     "Export to Excel", "Generate PDF Report"}

\* The run that stopped at stop has shown the button b.
ButtonShown(b, stop) ==
    CASE b = "Generate Complete Dashboard Report" ->
            stop \in {"segments", "forecast", "search", "end"}
      [] b \in {"Export to Excel", "Generate PDF Report"} -> stop = "end"
      [] OTHER -> stop \in {"forecast", "search", "end"}

\* The run that stopped at stop got to the Search tab.
ReachedSearch(stop) == stop \in {"search", "end"}

\* ---------------------------------------------------------------------
\* The report and export branches (lines 664-765, 917-1032, 1895-1916).

\* round(2) of a float: to the nearest hundredth, a tie to the even one.
Round2(x) ==
    IF x.k # "num" THEN x
    ELSE LET up == (200 * x.n + x.d) \div (2 * x.d)
             tie == (200 * x.n + x.d) % (2 * x.d) = 0
         IN  Frac(IF tie /\ up % 2 = 1 THEN up - 1 ELSE up, 100)

\* The place of a figure in its sheet: its name or column, and the group's
\* timestamp or the row for a figure of a grouped or row-wise sheet.
Fig(name) == [name |-> name, date |-> NaT, row |-> 0]
FigOn(name, ts) == [name |-> name, date |-> ts, row |-> 0]
FigRow(name, i) == [name |-> name, date |-> NaT, row |-> i]

\* A cell of a sheet: the figure the run computed and the value written.
Cell(sheet, figure, computed, written) ==
    [sheet |-> sheet, figure |-> figure, computed |-> computed, written |-> written]

\* The timestamps a groupby("date") of the table makes groups of.
GroupDates(table) == { table[i].date : i \in 1..Len(table) } \ {NaT}

\* Series.mean(): NaN for an empty column.
MeanOrNaN(values) == IF values = <<>> THEN NaN ELSE MeanSeq(values)

\* The 'Status' column of the 'KPI Metrics' sheet (lines 728-732).
ReportProfitStatus(profit_margin) ==
    IF profit_margin.k = "num" /\ profit_margin.n >= 30 * profit_margin.d THEN "Healthy"
    ELSE IF profit_margin.k = "num" /\ profit_margin.n >= 15 * profit_margin.d
         THEN "Needs Improvement"
    ELSE "Critical"

ReportExpenseStatus(expense_ratio) ==
    IF expense_ratio.k = "num" /\ expense_ratio.n <= 25 * expense_ratio.d THEN "Good"
    ELSE IF expense_ratio.k = "num" /\ expense_ratio.n <= 40 * expense_ratio.d THEN "Warning"
    ELSE "Critical"

ReportInventoryStatus(purchase_to_income_ratio) ==
    IF /\ purchase_to_income_ratio.k = "num"
       /\ purchase_to_income_ratio.n <= 40 * purchase_to_income_ratio.d THEN "Optimal"
    ELSE IF /\ purchase_to_income_ratio.k = "num"
            /\ purchase_to_income_ratio.n <= 60 * purchase_to_income_ratio.d THEN "Warning"
    ELSE "Critical"

\* The currency cells of the complete report (lines 670-702): the
\* 'Financial Overview' and 'Payment Analysis' amounts are written as
\* computed, the 'Daily Performance' sums through round(2).
CompleteReportCells(fd, k) ==
    { Cell("Financial Overview", Fig(f), k[f], k[f]) :
        f \in {"total_income", "total_expenses", "total_purchases", "net_profit",
               "money_deficit"} }
    \cup { Cell("Payment Analysis", Fig(f), k[f], k[f]) :
             f \in {"total_cash", "total_visa", "total_due"} }
    \cup UNION { { Cell("Daily Performance", FigOn(column, ts),
                        AmountOn(fd.daily_income, column, ts),
                        Round2(AmountOn(fd.daily_income, column, ts))) :
                     column \in {"Total", "deficit"} } :
                 ts \in GroupDates(fd.daily_income) }

\* The currency cells of the detailed revenue report (lines 917-966).
RevenueReportCells(fd, k) ==
    { Cell("Payment Analysis", Fig(f), k[f], k[f]) :
        f \in {"total_cash", "total_visa", "total_due"} }
    \cup { Cell("Payment Analysis Daily Average", Fig(column),
                MeanOrNaN([i \in 1..Len(fd.daily_income) |-> fd.daily_income[i][column]]),
                MeanOrNaN([i \in 1..Len(fd.daily_income) |-> fd.daily_income[i][column]])) :
             column \in {"cash", "visa", "due_amount"} }
    \cup { Cell("Revenue KPIs", Fig(f), k[f], k[f]) : f \in {"total_income", "avg_daily_revenue"} }
    \cup { Cell("Daily Revenue", FigOn("Total", ts), AmountOn(fd.daily_income, "Total", ts),
                Round2(AmountOn(fd.daily_income, "Total", ts))) :
             ts \in GroupDates(fd.daily_income) }

\* The currency cells of the payment analysis report (lines 978-991):
\* payment_mix.round(2), a row for each daily-income row.
PaymentReportCells(fd) ==
    UNION { { Cell("Daily Payment Mix", FigRow(column, i), fd.daily_income[i][column],
                   Round2(fd.daily_income[i][column])) :
                column \in {"cash", "visa", "due_amount", "Total"} } :
            i \in 1..Len(fd.daily_income) }

\* The currency cells of the search export (lines 1895-1907): the rows of
\* search_results and the 'Summary' sheet, written as computed.
SearchExportCells(search_results) ==
    { Cell("Search Results", FigRow("Invoice Amount", i), search_results[i].Invoice_Amount,
           search_results[i].Invoice_Amount) : i \in 1..Len(search_results) }
    \cup { Cell("Summary", Fig("Total Amount"),
                SumSeq([i \in 1..Len(search_results) |-> search_results[i].Invoice_Amount]),
                SumSeq([i \in 1..Len(search_results) |-> search_results[i].Invoice_Amount])),
           Cell("Summary", Fig("Average Purchase"),
                MeanOrNaN([i \in 1..Len(search_results) |-> search_results[i].Invoice_Amount]),
                MeanOrNaN([i \in 1..Len(search_results) |-> search_results[i].Invoice_Amount])) }

\* What the branch of the button pressed writes.  The growth report's sheets
\* (lines 1001-1025) and the pivots hold sums through round(2) only and are
\* left out; "Generate PDF Report" writes nothing (line 1920).
NoSheets == [cells |-> {}, status |-> <<>>]

Sheets(pressed, fd, k, search_results) ==
    CASE pressed = "Generate Complete Dashboard Report" ->
            [cells |-> CompleteReportCells(fd, k),
             status |-> [profit |-> ReportProfitStatus(k.profit_margin),
                         expense |-> ReportExpenseStatus(k.expense_ratio),
                         inventory |-> ReportInventoryStatus(k.purchase_to_income_ratio)]]
      [] pressed = "Export Detailed Revenue Report" ->
            [cells |-> RevenueReportCells(fd, k), status |-> <<>>]
      [] pressed = "Generate Payment Analysis Report" ->
            [cells |-> PaymentReportCells(fd), status |-> <<>>]
      [] pressed = "Export to Excel" ->
            [cells |-> SearchExportCells(search_results), status |-> <<>>]
      [] OTHER -> NoSheets

NoTables == [daily_income |-> <<>>, inventory |-> <<>>, expenses |-> <<>>]

\* The daily-income table holds a timestamp.  Without one its min() and
\* max() are NaT and lines 125-142 raise.
HasDates(d) == \E i \in 1..Len(d.daily_income) : d.daily_income[i].date # NaT

\* The figures of the first KPI row (lines 234-271).
FirstKpiRow ==
    {"total_income", "avg_daily_revenue", "total_expenses", "total_purchases",
     "net_profit", "money_deficit", "revenue_pct", "expenses_pct", "purchases_pct",
     "margin_pct", "deficit_pct"}

\* The figures of the Inventory tab.
InventoryFigures == {"total_credit", "credit_utilization"}

\* The figures k, those named in hidden left out: the run did not reach them.
Hide(k, hidden) == [f \in DOMAIN k |-> IF f \in hidden THEN NotShown ELSE k[f]]

\* The tabs after the Overview of a run that stopped at stop before them.
TabsBlank(stop) ==
    [stop |-> stop, monthly_average |-> NotShown, mom_growth |-> NotShown,
     revenue_volatility |-> NotShown, revenue_segment |-> <<>>, daily_metrics |-> <<>>,
     fit |-> {}, revenue_growth |-> NotShown, profit_growth |-> NotShown,
     cost_change |-> NotShown, ccf_shift |-> <<>>, search_results |-> <<>>,
     export |-> "none", sheets |-> NoSheets]

\* The Revenue tab and the tabs after it, over filtered_data fd, the
\* forecasts' figures left open.  The run stops where pd.qcut raises (line
\* 900) or where Prophet.fit does, on the loop's first metric (line 1456);
\* stop is "end" when it did not stop.
TabsOver(fd, q) ==
    [stop |-> IF q.raised THEN "segments"
              ELSE IF Len(fd.daily_income) < MinHistory THEN "forecast" ELSE "end",
     monthly_average |-> MonthlyAverage(fd.daily_income),
     mom_growth |-> MomGrowth(fd.daily_income),
     revenue_volatility |-> RevenueVolatility(fd.daily_income),
     revenue_segment |-> q.labels,
     daily_metrics |-> IF q.raised THEN <<>> ELSE DailyMetrics(fd),
     fit |-> IF q.raised \/ Len(fd.daily_income) < MinHistory THEN {} ELSE metrics_to_predict,
     revenue_growth |-> NotShown, profit_growth |-> NotShown, cost_change |-> NotShown,
     ccf_shift |-> IF q.raised \/ Len(fd.daily_income) < MinHistory THEN <<>>
                   ELSE [lag \in (0 - MaxLag)..MaxLag |-> CcfShift(lag)],
     search_results |-> <<>>, export |-> "none", sheets |-> NoSheets]

TabsOf(fd) ==
    Only({ TabsOver(fd, q) :
           q \in {QCut([i \in 1..Len(fd.daily_income) |-> fd.daily_income[i].Total.n])} })

\* The last fitted value (forecast['yhat'].iloc[-1]) and the forecast cost
\* are not computed here: one value of ForecastValues is drawn for them.
ForecastValues == {Num(0), Num(2)}

\* Lines 1544-1555 and 1604-1614: the figures that depend on the forecast
\* yhat, in a run that reached the ML tab's end.
WithForecast(t, yhat) ==
    IF ~ReachedSearch(t.stop) THEN t
    ELSE [t EXCEPT
            !.revenue_growth =
                GrowthRate(yhat, t.daily_metrics[Len(t.daily_metrics)].revenue),
            !.profit_growth =
                GrowthRate(yhat, t.daily_metrics[Len(t.daily_metrics)].net_profit),
            !.cost_change = GrowthRate(yhat, CurrentTotalCost(t.daily_metrics))]

\* The Search tab's results in a run that got to it, the "Invoice ID" box
\* holding invoice_id.
\* Line 1798 reads the column "Invoice ID": without it the run raises
\* KeyError there when the box holds a text, and stops.
WithSearch(t, inventory, invoice_id, missing) ==
    IF t.stop # "end" THEN t
    ELSE IF missing = "Invoice_ID_missing" /\ invoice_id # <<>>
         THEN [t EXCEPT !.stop = "search"]
    ELSE [t EXCEPT !.search_results = SearchResults(inventory, invoice_id)]

\* The branch of the button pressed runs when the run gets to the button.
WithExport(t, pressed, fd, k) ==
    IF pressed # "none" /\ ButtonShown(pressed, t.stop)
    THEN [t EXCEPT !.export = pressed,
                   !.sheets = Sheets(pressed, fd, k, t.search_results)]
    ELSE t

\* A variant of SegmentAssign for a filtered table that shares its rows with
\* the loaded table: the column is written into the loaded rows too.
SegmentAssignInPlace(d, view, labels) ==
    [d EXCEPT !.daily_income =
        [i \in 1..Len(d.daily_income) |->
            IF \E j \in 1..Len(labels) : view[j].idx = d.daily_income[i].idx
            THEN [f \in DOMAIN d.daily_income[i] \cup {"revenue_segment"} |->
                    IF f = "revenue_segment"
                    THEN labels[CHOOSE j \in 1..Len(labels) :
                                    view[j].idx = d.daily_income[i].idx]
                    ELSE d.daily_income[i][f]]
            ELSE d.daily_income[i]]]

\* A variant of SegmentAssign for a filter that narrows the loaded table
\* itself: the loaded daily-income table is left holding the view.
SegmentAssignNarrowing(d, view, labels) == [d EXCEPT !.daily_income = view]

\* The loaded tables d after line 900 wrote the column labels into the
\* filtered daily-income table view: view is a copy (lines 159, 176), so
\* the loaded tables keep their rows and columns.
SegmentAssign(d, view, labels) == d

\* What a run leaves when load_data() raised: the error is shown and
\* st.stop() ends the run (lines 104-106).
Halted ==
    [pc |-> "halted", start_date |-> 0, end_date |-> 0, filtered_data |-> NoTables,
     kpi |-> Hide(ComputeKpi(NoTables), DOMAIN ComputeKpi(NoTables)),
     tabs |-> TabsBlank("load")]

\* What a run leaves when it raised in the sidebar.
Raised ==
    [pc |-> "raised", start_date |-> 0, end_date |-> 0, filtered_data |-> NoTables,
     kpi |-> Hide(ComputeKpi(NoTables), DOMAIN ComputeKpi(NoTables)),
     tabs |-> TabsBlank("sidebar")]

\* The run from line 215 on, over filtered_data fd, the figures being k and
\* the later tabs t.  Without the "cash" column line 279 raises KeyError.
TabsRun(win, fd, k, t, missing) ==
    IF missing = "cash_missing"
    THEN [pc |-> "raised", start_date |-> win[1], end_date |-> win[2],
          filtered_data |-> fd, kpi |-> Hide(k, DOMAIN k \ FirstKpiRow),
          tabs |-> TabsBlank("payment")]
    ELSE [pc |-> "done", start_date |-> win[1], end_date |-> win[2],
          filtered_data |-> fd,
          kpi |-> IF ReachedSearch(t.stop) THEN k ELSE Hide(k, InventoryFigures),
          tabs |-> t]

\* The run from line 152 on, the window being win.
RunInWindow(d, w, win, missing) ==
    Only({ Only({ TabsRun(win, fd, ComputeKpi(fd), t, missing) :
                  t \in {IF missing = "cash_missing" THEN TabsBlank("payment")
                         ELSE WithSearch(TabsOf(fd), fd.inventory, w.invoice_id,
                                         missing)} }) :
           fd \in {FilterTables(d, win[1], win[2], w)} })

\* One run of the script after the load guard; missing names the column
\* the tables lack, if any.
ScriptRun(d, w, missing) ==
    IF ~HasDates(d)
    THEN Raised
    ELSE Only({ RunInWindow(d, w, win, missing) :
                win \in {ResolveWindow(w.date_preset, w.date_range, d.daily_income)} })

\* The value st.date_input shows before the operator touches it (125-126).
DefaultRange(d) ==
    IF ~HasDates(d) THEN <<>>
    ELSE <<MinDay(d.daily_income), MaxDay(d.daily_income)>>

\* What the operator can make st.date_input return: one date while a range
\* is being picked, or two dates between min_value and max_value.
RangeChoices(d) ==
    { <<MinDay(d.daily_income)>>,
      <<MinDay(d.daily_income), MaxDay(d.daily_income)>>,
      <<MaxDay(d.daily_income), MaxDay(d.daily_income)>> }

DefaultWidgets(d) ==
    [date_preset |-> "Custom", date_range |-> DefaultRange(d), month_preset |-> "All",
     selected_type |-> "All", selected_company |-> "All", selected_expense |-> "All",
     invoice_id |-> <<>>]

\* The sidebar's widgets below the date preset exist once lines 122-142 ran.
SidebarShown == HasDates(data)

\* The state a run that ended as r leaves, yhat being the forecast and
\* pressed the button whose press started the run, if any.
Leaves(r, yhat, pressed) ==
    /\ pc' = r.pc
    /\ start_date' = r.start_date
    /\ end_date' = r.end_date
    /\ filtered_data' = r.filtered_data
    /\ kpi' = r.kpi
    /\ tabs' = WithExport(WithForecast(r.tabs, yhat), pressed, r.filtered_data, r.kpi)
    /\ data' = SegmentAssign(data, r.filtered_data.daily_income, r.tabs.revenue_segment)

\* The widgets w after a run that stopped at stop: the "Invoice ID" box
\* keeps its text only while the run shows it.
WidgetsKept(w, stop) ==
    IF ReachedSearch(stop) THEN w ELSE [w EXCEPT !.invoice_id = <<>>]

\* The script runs with the widgets w, after a press of the button pressed
\* if any: the state the run leaves.
RerunPressed(w, pressed) ==
    \E r \in {ScriptRun(data, w, xlsx.fault)} :
        \E yhat \in (IF ReachedSearch(r.tabs.stop) THEN ForecastValues ELSE {Num(0)}) :
            /\ widgets' = WidgetsKept(w, r.tabs.stop)
            /\ Leaves(r, yhat, pressed)
            /\ UNCHANGED xlsx

Rerun(w) == RerunPressed(w, "none")

\* The first run of a session over one of the workbooks of books.
InitOver(books) ==
    /\ xlsx \in books
    /\ \E d \in {LoadGuard(xlsx)} :
       \E r \in {IF LoadRaises(xlsx) THEN Halted
                 ELSE ScriptRun(d, DefaultWidgets(d), xlsx.fault)} :
        \E yhat \in (IF ReachedSearch(r.tabs.stop) THEN ForecastValues ELSE {Num(0)}) :
           /\ data = SegmentAssign(d, r.filtered_data.daily_income, r.tabs.revenue_segment)
           /\ widgets = DefaultWidgets(d)
           /\ pc = r.pc
           /\ start_date = r.start_date
           /\ end_date = r.end_date
           /\ filtered_data = r.filtered_data
           /\ kpi = r.kpi
           /\ tabs = WithForecast(r.tabs, yhat)

Init == InitOver(Workbooks)

\* The operator picks a date preset; the date picker is shown, with its
\* default value, under "Custom" only.
SelectDatePreset ==
    \E p \in DatePresets :
        /\ pc # "halted"
        /\ p # widgets.date_preset
        /\ Rerun([widgets EXCEPT !.date_preset = p, !.date_range = DefaultRange(data)])

\* The operator picks dates in the date picker.
PickDateRange ==
    /\ SidebarShown
    /\ widgets.date_preset = "Custom"
    /\ \E r \in RangeChoices(data) :
        /\ r # widgets.date_range
        /\ Rerun([widgets EXCEPT !.date_range = r])

SelectMonth ==
    /\ SidebarShown
    /\ \E m \in MonthOptions :
        /\ m # widgets.month_preset
        /\ Rerun([widgets EXCEPT !.month_preset = m])

SelectInventoryType ==
    /\ SidebarShown
    /\ \E t \in TypeOptions(data) :
        /\ t # widgets.selected_type
        /\ Rerun([widgets EXCEPT !.selected_type = t])

SelectCompany ==
    /\ SidebarShown
    /\ \E c \in CompanyOptions(data) :
        /\ c # widgets.selected_company
        /\ Rerun([widgets EXCEPT !.selected_company = c])

SelectExpenseType ==
    /\ SidebarShown
    /\ \E e \in ExpenseOptions(data) :
        /\ e # widgets.selected_expense
        /\ Rerun([widgets EXCEPT !.selected_expense = e])

Next ==
    \/ SelectDatePreset
    \/ PickDateRange
    \/ SelectMonth
    \/ SelectInventoryType
    \/ SelectCompany
    \/ SelectExpenseType

Spec == Init /\ [][Next]_vars

\* The operator types in the "Invoice ID" box of the Search tab (line 1758).
TypeInvoiceId ==
    /\ ReachedSearch(tabs.stop)
    /\ \E invoice_id \in SearchTerms \cup {<<>>} :
        /\ invoice_id # widgets.invoice_id
        /\ Rerun([widgets EXCEPT !.invoice_id = invoice_id])

\* The operator presses a report or export button the last run has shown
\* (lines 664, 917, 978, 1001, 1895, 1919).
PressExport ==
    \E b \in ExportButtons :
        /\ ButtonShown(b, tabs.stop)
        /\ RerunPressed(widgets, b)

\* The "Inventory Purchases" sheet of the search workbooks.
SearchInventory ==
    LedgerInventory \o
    << [Date |-> DateCell(2024, 1, 25, 0), id |-> "INV-3",
        Invoice_ID |-> <<"a", "2">>, Invoice_Company |-> "Acme",
        Inventory_Type |-> "Drugs", Invoice_Amount |-> Num(1), Credit_Limit |-> Num(0)] >>

\* The script with the Search tab's text box and the export buttons in use,
\* over workbooks whose run gets to the Search tab.  The inventory sheet has
\* the column "id" the Inventory tab reads (lines 1087, 1192) and the column
\* "Invoice ID" the Search tab reads (line 1798).
SearchWorkbooks ==
    [daily : {<<DailyMaster[1], DailyMaster[3], DailyMaster[4]>>},
     inventory : {SearchInventory},
     expenses : {SubSeq(ExpensesMaster, 1, 1)},
     fault : {"none"}]

SearchInit == InitOver(SearchWorkbooks)

SearchNext == Next \/ TypeInvoiceId \/ PressExport

SearchSpec == SearchInit /\ [][SearchNext]_vars

\* The same script over a workbook whose inventory sheet has the column
\* "id" and no column "Invoice ID".
DocumentedWorkbooks ==
    [daily : {SubSeq(DailyMaster, 3, 4)},
     inventory : {LedgerInventory},
     expenses : {SubSeq(ExpensesMaster, 1, 1)},
     fault : {"Invoice_ID_missing"}]

DocumentedInit == InitOver(DocumentedWorkbooks)

DocumentedSpec == DocumentedInit /\ [][SearchNext]_vars

\* The same script over the ledger workbooks.
LedgerInit == InitOver(LedgerWorkbooks)

LedgerSpec == LedgerInit /\ [][Next]_vars

-----------------------------------------------------------------------------
(* Properties.                                                             *)

\* The rows of table that satisfy P, in the table's order, are exactly out.
IsSelection(out, table, P(_)) ==
    LET S == { i \in 1..Len(table) : P(table[i]) }
    IN  /\ Len(out) = Cardinality(S)
        /\ \A i \in S : out[Cardinality({ k \in S : k <= i })] = table[i]

\* The row r is one of the rows of table.
RowIn(r, table) == \E j \in 1..Len(table) : table[j] = r

\* The predicates of the last run's selection, on a row r.
DayInWindow(r) ==
    r.date # NaT /\ start_date <= DateOf(r.date) /\ DateOf(r.date) <= end_date
MonthSelected(r) ==
    widgets.month_preset # "All" => r.date # NaT /\ month_name[r.date.m] = widgets.month_preset
TypeSelected(r) ==
    widgets.selected_type # "All" => r.Inventory_Type = widgets.selected_type
CompanySelected(r) ==
    widgets.selected_company # "All" => r.Invoice_Company = widgets.selected_company
ExpenseSelected(r) ==
    widgets.selected_expense # "All" => r.Expense_Type = widgets.selected_expense

\* profit_margin * total_income / 100 = net_profit
Reconciles(profit_margin, total_income, net_profit) ==
    /\ profit_margin.k = "num" /\ total_income.k = "num" /\ net_profit.k = "num"
    /\ profit_margin.n * total_income.n * net_profit.d
          = net_profit.n * 100 * profit_margin.d * total_income.d

C2_ZeroIncomeRatiosAreZero ==
    pc = "done" =>
        /\ FEq(kpi.total_income, Num(0)) =>
              \A f \in {"expenses_pct", "purchases_pct", "margin_pct", "deficit_pct",
                        "cash_pct", "visa_pct", "due_pct", "system_pct",
                        "profit_margin", "expense_ratio", "purchase_to_income_ratio"} :
                  FEq(kpi[f], Num(0))
        /\ FEq(kpi.total_credit, Num(0)) => FEq(kpi.credit_utilization, Num(0))

\* C3: the filtered daily-income table is the one obtained with no category
\* selected, the filtered expense table the one obtained with no inventory
\* type and no company selected, and the filtered inventory table the one
\* obtained with no expense type selected.
C3_CategoryFiltersFrame ==
    pc = "done" =>
        /\ filtered_data.daily_income =
              FilterTables(data, start_date, end_date,
                           [widgets EXCEPT !.selected_type = "All",
                                           !.selected_company = "All",
                                           !.selected_expense = "All"]).daily_income
        /\ filtered_data.expenses =
              FilterTables(data, start_date, end_date,
                           [widgets EXCEPT !.selected_type = "All",
                                           !.selected_company = "All"]).expenses
        /\ filtered_data.inventory =
              FilterTables(data, start_date, end_date,
                           [widgets EXCEPT !.selected_expense = "All"]).inventory

\* An inventory type and an expense type are selected and each drops a row of
\* its table, while daily-income rows are shown.
C3_Witness ==
    /\ pc = "done"
    /\ widgets.selected_type # "All"
    /\ widgets.selected_expense # "All"
    /\ filtered_data.daily_income # <<>>
    /\ Len(filtered_data.inventory) <
          Len(FilterTables(data, start_date, end_date,
                           [widgets EXCEPT !.selected_type = "All"]).inventory)
    /\ Len(filtered_data.expenses) <
          Len(FilterTables(data, start_date, end_date,
                           [widgets EXCEPT !.selected_expense = "All"]).expenses)

\* C4: each filtered table holds exactly the rows of the loaded table whose
\* calendar day lies in [start_date, end_date] (both ends included, whatever
\* the time of day), whose month is the selected one when a month is selected
\* and whose categories are the selected ones, in the loaded table's order.
C4_FilteredExactly ==
    pc = "done" =>
        /\ IsSelection(filtered_data.daily_income, data.daily_income,
                       LAMBDA r : DayInWindow(r) /\ MonthSelected(r))
        /\ IsSelection(filtered_data.inventory, data.inventory_purchases,
                       LAMBDA r : /\ DayInWindow(r) /\ MonthSelected(r)
                                  /\ TypeSelected(r) /\ CompanySelected(r))
        /\ IsSelection(filtered_data.expenses, data.expenses,
                       LAMBDA r : DayInWindow(r) /\ MonthSelected(r) /\ ExpenseSelected(r))

\* Two daily-income rows are kept, one of them dated on end_date after
\* midnight, and an inventory row is left out.
C4_Witness ==
    /\ pc = "done"
    /\ Len(filtered_data.daily_income) = 2
    /\ \E j \in 1..2 :
          /\ filtered_data.daily_income[j].date.t > 0
          /\ DateOf(filtered_data.daily_income[j].date) = end_date
    /\ Len(filtered_data.inventory) < Len(data.inventory_purchases)

\* C5: with a month selected, a loaded row is kept if and only if its date
\* lies in that calendar month (of any year) and in the date window (and, in
\* the inventory and expense tables, its categories are the selected ones).
C5_MonthAndWindow ==
    (pc = "done" /\ widgets.month_preset # "All") =>
        /\ \A i \in 1..Len(data.daily_income) :
              RowIn(data.daily_income[i], filtered_data.daily_income)
                 <=> /\ data.daily_income[i].date # NaT
                     /\ data.daily_income[i].date.m = MonthNumber(widgets.month_preset)
                     /\ DayInWindow(data.daily_income[i])
        /\ \A i \in 1..Len(data.inventory_purchases) :
              RowIn(data.inventory_purchases[i], filtered_data.inventory)
                 <=> /\ data.inventory_purchases[i].date # NaT
                     /\ data.inventory_purchases[i].date.m = MonthNumber(widgets.month_preset)
                     /\ DayInWindow(data.inventory_purchases[i])
                     /\ TypeSelected(data.inventory_purchases[i])
                     /\ CompanySelected(data.inventory_purchases[i])
        /\ \A i \in 1..Len(data.expenses) :
              RowIn(data.expenses[i], filtered_data.expenses)
                 <=> /\ data.expenses[i].date # NaT
                     /\ data.expenses[i].date.m = MonthNumber(widgets.month_preset)
                     /\ DayInWindow(data.expenses[i])
                     /\ ExpenseSelected(data.expenses[i])

\* A month is selected; one daily-income row of that month, of another year,
\* lies outside the window and is left out, another one is kept.
C5_Witness ==
    /\ pc = "done"
    /\ widgets.month_preset # "All"
    /\ filtered_data.daily_income # <<>>
    /\ \E i \in 1..Len(data.daily_income) :
          /\ data.daily_income[i].date # NaT
          /\ data.daily_income[i].date.m = MonthNumber(widgets.month_preset)
          /\ data.daily_income[i].date.y # filtered_data.daily_income[1].date.y
          /\ ~RowIn(data.daily_income[i], filtered_data.daily_income)


\* The filtered tables under the names load_data gives its tables.
AsData(fd) ==
    [daily_income |-> fd.daily_income, inventory_purchases |-> fd.inventory,
     expenses |-> fd.expenses]

\* C6: filtering the filtered tables again, with the same window, month and
\* categories, yields the same tables.
C6_FilterIdempotent ==
    pc = "done" =>
        FilterTables(AsData(filtered_data), start_date, end_date, widgets) = filtered_data

\* Every table keeps a row, and the daily-income and inventory tables lose one.
C6_Witness ==
    /\ pc = "done"
    /\ filtered_data.daily_income # <<>>
    /\ filtered_data.inventory # <<>>
    /\ filtered_data.expenses # <<>>
    /\ Len(filtered_data.daily_income) < Len(data.daily_income)
    /\ Len(filtered_data.inventory) < Len(data.inventory_purchases)

\* C7: under every named preset end_date is the latest day of the loaded
\* daily-income table; "Year to Date" starts on 1 January of that day's year
\* and "All Time" on the earliest day of the daily-income table.
C7_PresetAnchoredToData ==
    (pc = "done" /\ widgets.date_preset # "Custom") =>
        /\ \E i \in 1..Len(data.daily_income) :
              /\ data.daily_income[i].date # NaT
              /\ DateOf(data.daily_income[i].date) = end_date
              /\ widgets.date_preset = "Year to Date" =>
                    start_date = DaysFromCivil(data.daily_income[i].date.y, 1, 1)
        /\ \A i \in 1..Len(data.daily_income) :
              data.daily_income[i].date # NaT => DateOf(data.daily_income[i].date) <= end_date
        /\ widgets.date_preset = "All Time" =>
              /\ \E i \in 1..Len(data.daily_income) :
                    /\ data.daily_income[i].date # NaT
                    /\ DateOf(data.daily_income[i].date) = start_date
              /\ \A i \in 1..Len(data.daily_income) :
                    data.daily_income[i].date # NaT =>
                        start_date <= DateOf(data.daily_income[i].date)

\* "Year to Date" over daily-income rows of two years: the window starts
\* after the earliest row.
C7_Witness ==
    /\ pc = "done"
    /\ widgets.date_preset = "Year to Date"
    /\ \E i \in 1..Len(data.daily_income) :
          /\ data.daily_income[i].date # NaT
          /\ DateOf(data.daily_income[i].date) < start_date

\* C8: every row of the three loaded tables has a parsed date that is not
\* null.
C8_DatesNeverNull ==
    /\ \A i \in 1..Len(data.daily_income) : data.daily_income[i].date # NaT
    /\ \A i \in 1..Len(data.inventory_purchases) : data.inventory_purchases[i].date # NaT
    /\ \A i \in 1..Len(data.expenses) : data.expenses[i].date # NaT

\* C9: no numeric field of a loaded row is null, the derived net_income and
\* deficit included.
C9_NumbersNeverNull ==
    /\ \A i \in 1..Len(data.daily_income) :
          \A f \in {"Total", "cash", "visa", "due_amount", "Gross_Income_sys",
                    "net_income", "deficit"} : ~IsNaN(data.daily_income[i][f])
    /\ \A i \in 1..Len(data.inventory_purchases) :
          \A f \in {"Invoice_Amount", "Credit_Limit"} : ~IsNaN(data.inventory_purchases[i][f])
    /\ \A i \in 1..Len(data.expenses) : ~IsNaN(data.expenses[i].Expense_Amount)

\* The amount of a sheet cell, a blank cell counting as 0.
CellAmount(cell) == IF cell.k = "num" THEN cell.n ELSE 0

\* C10: for every loaded daily-income row, deficit = Total - Gross Income_sys
\* of the row, and net_income = Total - Expense Amount - Invoice Amount, the
\* two amounts being those of the rows at the daily-income row's own position
\* in the Expenses and Inventory Purchases sheets.
C10_DerivedByPosition ==
    \A i \in 1..Len(data.daily_income) :
        LET r == data.daily_income[i] IN
        /\ FEq(r.deficit, Num(r.Total.n - r.Gross_Income_sys.n))
        /\ (r.idx <= Len(xlsx.expenses) /\ r.idx <= Len(xlsx.inventory)) =>
              FEq(r.net_income,
                  Num(CellAmount(xlsx.daily[r.idx].Total)
                      - CellAmount(xlsx.expenses[r.idx].Expense_Amount)
                      - CellAmount(xlsx.inventory[r.idx].Invoice_Amount)))

\* A daily-income row that follows a dropped row of its sheet, with an
\* expense row and an inventory row at its position.
C10_Witness ==
    \E i \in 1..Len(data.daily_income) :
        /\ data.daily_income[i].idx > i
        /\ data.daily_income[i].idx <= Len(xlsx.expenses)
        /\ data.daily_income[i].idx <= Len(xlsx.inventory)
        /\ IsFinite(data.daily_income[i].net_income)
        /\ data.daily_income[i].date # NaT

Below(x, c) == x.k = "num" /\ x.n < c * x.d
Above(x, c) == x.k = "num" /\ x.n > c * x.d

\* C12: the profit notice is critical for a margin below 20, a warning from
\* 20 to below 50 and healthy from 50 on; the expense notice is critical for
\* a ratio above 50, a warning above 30 up to 50 and healthy up to 30; the
\* inventory notice is critical for a ratio above 60, healthy above 40 up to
\* 60 and a warning up to 40.
C12_NoticeBreakpoints ==
    pc = "done" =>
        /\ kpi.notices.profit =
              (IF Below(kpi.profit_margin, 20) THEN "critical"
               ELSE IF Below(kpi.profit_margin, 50) THEN "warning" ELSE "healthy")
        /\ kpi.notices.expense =
              (IF Above(kpi.expense_ratio, 50) THEN "critical"
               ELSE IF Above(kpi.expense_ratio, 30) THEN "warning" ELSE "healthy")
        /\ kpi.notices.inventory =
              (IF Above(kpi.purchase_to_income_ratio, 60) THEN "critical"
               ELSE IF Above(kpi.purchase_to_income_ratio, 40) THEN "healthy" ELSE "warning")

\* A run whose margin is exactly 20 and whose purchase ratio is exactly 60.
C12_Witness ==
    /\ pc = "done"
    /\ FEq(kpi.profit_margin, Num(20))
    /\ FEq(kpi.purchase_to_income_ratio, Num(60))
    /\ kpi.notices.profit = "warning"
    /\ kpi.notices.inventory = "healthy"

\* C13: when the filtered daily-income table is empty, the KPI sums (total
\* income, cash, visa, due amounts, deficit) and avg_daily_revenue are 0 and
\* the run raises in no tab: it goes on to its end.
C13_EmptyViewRunsToEnd ==
    (pc = "done" /\ filtered_data.daily_income = <<>>) =>
        /\ \A f \in {"total_income", "avg_daily_revenue", "money_deficit",
                     "total_cash", "total_visa", "total_due"} : FEq(kpi[f], Num(0))
        /\ tabs.stop = "end"

\* C14: when a metric's series has fewer than MinHistory points, the run
\* does not abort: it goes on to its end, and every metric whose series has
\* MinHistory points or more is fit.  (The four series have one point for
\* each row of the filtered daily-income table.)
C14_InsufficientHistoryIsolated ==
    (pc = "done" /\ Len(filtered_data.daily_income) < MinHistory) =>
        /\ tabs.stop = "end"
        /\ tabs.fit = { m \in metrics_to_predict :
                          Len(filtered_data.daily_income) >= MinHistory }

\* The year-months of the filtered daily-income rows, and the revenue of one.
ViewMonths == { <<filtered_data.daily_income[i].date.y, filtered_data.daily_income[i].date.m>> :
                   i \in 1..Len(filtered_data.daily_income) }
Later(a, b) == a[1] > b[1] \/ (a[1] = b[1] /\ a[2] > b[2])
RevenueOf(ym) ==
    SumUpTo([i \in 1..Len(filtered_data.daily_income) |->
                IF <<filtered_data.daily_income[i].date.y,
                     filtered_data.daily_income[i].date.m>> = ym
                THEN filtered_data.daily_income[i].Total ELSE Num(0)],
            Len(filtered_data.daily_income))

\* C15: month-over-month growth is 0 when the filtered daily-income rows lie
\* in fewer than two year-months; otherwise it is (last - prior) / prior * 100
\* for the two latest year-months present; and it is a finite number in
\* every case, a prior revenue of 0 included.
C15_MomGrowthFinite ==
    pc = "done" =>
        /\ IsFinite(tabs.mom_growth)
        /\ Cardinality(ViewMonths) < 2 => FEq(tabs.mom_growth, Num(0))
        /\ \A last, prior \in ViewMonths :
              (/\ Later(last, prior)
               /\ \A m \in ViewMonths \ {last, prior} : Later(prior, m)
               /\ RevenueOf(prior) # 0) =>
                  tabs.mom_growth.n * RevenueOf(prior)
                     = 100 * (RevenueOf(last) - RevenueOf(prior)) * tabs.mom_growth.d

\* The number of rows of the filtered daily-income table labelled l.
SegmentCount(l) ==
    Cardinality({ i \in 1..Len(tabs.revenue_segment) : tabs.revenue_segment[i] = l })

\* C16: when the filtered daily-income table holds at least 4 distinct Total
\* values, every row is given one of the four labels, each of the four
\* segments holds a row, and the segments' row counts sum to the table's.
C16_SegmentsNonEmpty ==
    (/\ pc = "done"
     /\ Cardinality({ filtered_data.daily_income[i].Total.n :
                         i \in 1..Len(filtered_data.daily_income) }) >= 4) =>
        /\ tabs.stop # "segments"
        /\ Len(tabs.revenue_segment) = Len(filtered_data.daily_income)
        /\ \A i \in 1..Len(tabs.revenue_segment) :
              \E j \in 1..4 : tabs.revenue_segment[i] = SegmentLabels[j]
        /\ \A j \in 1..4 : SegmentCount(SegmentLabels[j]) >= 1
        /\ SegmentCount("Low") + SegmentCount("Medium-Low") + SegmentCount("Medium-High")
              + SegmentCount("High") = Len(filtered_data.daily_income)

\* A figure is a finite number, or the run did not get to display it.
Displayable(x) == x.k \in {"num", "none"}

\* C17: no figure the run displays is NaN or infinite: the KPIs and ratios
\* of the Overview tab, the monthly average, the month-over-month growth and
\* the volatility of the Revenue tab, the forecast growth and the projected
\* cost change of the ML tab.
C17_NoNaNNoInf ==
    /\ \A f \in DOMAIN kpi \ {"notices"} : Displayable(kpi[f])
    /\ \A f \in {"monthly_average", "mom_growth", "revenue_volatility",
                 "revenue_growth", "profit_growth", "cost_change"} : Displayable(tabs[f])

\* The calendar days of the series handed to Prophet.
SeriesDays == { DateOf(tabs.daily_metrics[i].date) : i \in 1..Len(tabs.daily_metrics) }

\* C18: the series handed to the forecast holds exactly one point for every
\* calendar day from its first day to its last.
C18_SeriesGapFilled ==
    tabs.daily_metrics # <<>> =>
        \A day \in SeriesDays : \A other \in SeriesDays :
            \A x \in day..other :
                Cardinality({ i \in 1..Len(tabs.daily_metrics) :
                                 DateOf(tabs.daily_metrics[i].date) = x }) = 1

\* C19: at the lag -k the compared series is shifted k places one way and at
\* the lag +k the same k places the other way.
C19_CcfLagsOpposite ==
    tabs.ccf_shift # <<>> =>
        \A k \in 1..MaxLag :
            \A column \in {"expenses", "purchases", "net_profit"} :
                Shift([i \in 1..Len(tabs.daily_metrics) |-> tabs.daily_metrics[i][column]],
                      tabs.ccf_shift[0 - k])
                  = Shift([i \in 1..Len(tabs.daily_metrics) |-> tabs.daily_metrics[i][column]],
                          0 - tabs.ccf_shift[k])

\* C20: the loaded tables stay what load_data() returned, through every run:
\* whatever the filters selected, the text searched and the buttons pressed,
\* the revenue_segment column written at line 900 included.
C20_LoadedTablesUntouched == data = LoadGuard(xlsx)

\* A run after a search and a press of an export button in which line 900
\* wrote the segment column into a filtered table smaller than the loaded one.
C20_Witness ==
    /\ tabs.export = "Export to Excel"
    /\ widgets.invoice_id # <<>>
    /\ tabs.revenue_segment # <<>>
    /\ Len(filtered_data.daily_income) < Len(data.daily_income)

\* C21: what a run leaves is what a first run over the loaded workbook with
\* the same widget values leaves: the same window, filtered tables and KPI
\* values, whatever runs came before it.
C21_RunsRepeatable ==
    pc # "halted" =>
        \E r \in {ScriptRun(LoadGuard(xlsx), widgets, xlsx.fault)} :
            /\ pc = r.pc
            /\ start_date = r.start_date
            /\ end_date = r.end_date
            /\ filtered_data = r.filtered_data
            /\ kpi = r.kpi

\* A second run with the same filter values, started by a button, after
\* runs with other filter values.
C21_Witness ==
    /\ tabs.export = "Generate Complete Dashboard Report"
    /\ widgets.month_preset # "All"
    /\ widgets.date_preset # "Custom"
    /\ filtered_data.daily_income # <<>>

\* Two floats hold the same value: both NaN, or equal numbers.
SameFloat(x, y) == (IsNaN(x) /\ IsNaN(y)) \/ FEq(x, y)

\* C22: every currency figure in the sheets an export writes is the
\* computed figure rounded to 2 decimal places.
C22_ExportsRounded ==
    \A c \in tabs.sheets.cells : SameFloat(c.written, Round2(c.computed))

\* C23: when the filtered daily-income rows have a positive total and the
\* filtered expense and inventory tables are empty, net_profit equals
\* total_income, profit_margin is 100 and the three notices (profit,
\* expense, inventory) are the healthy ones.
C23_NoCostsAllHealthy ==
    (/\ pc = "done"
     /\ FGt0(kpi.total_income)
     /\ filtered_data.expenses = <<>>
     /\ filtered_data.inventory = <<>>) =>
        /\ FEq(kpi.net_profit, kpi.total_income)
        /\ FEq(kpi.profit_margin, Num(100))
        /\ \A indicator \in {"profit", "expense", "inventory"} :
              kpi.notices[indicator] = "healthy"

\* The days a "Last N Days" preset goes back.
LastDays ==
    [p \in {"Last 7 Days", "Last 30 Days", "Last 90 Days"} |->
        CASE p = "Last 7 Days" -> 7 [] p = "Last 30 Days" -> 30 [] OTHER -> 90]

\* The loaded daily-income row i is in the filtered table.
DailyRowKept(i) ==
    \E j \in 1..Len(filtered_data.daily_income) :
        filtered_data.daily_income[j].idx = data.daily_income[i].idx

\* C24: under "Last 7 Days", "Last 30 Days" and "Last 90 Days" the window is
\* [max_date - N, max_date], max_date being the latest daily-income date:
\* with the month at "All", a daily-income row is kept exactly when its date
\* is one of these N + 1 days, the day N days before max_date included.
C24_LastNDaysInclusive ==
    (pc = "done" /\ widgets.date_preset \in DOMAIN LastDays) =>
        /\ end_date = MaxDay(data.daily_income)
        /\ start_date = end_date - LastDays[widgets.date_preset]
        /\ widgets.month_preset = "All" =>
              \A i \in 1..Len(data.daily_income) :
                  DailyRowKept(i) <=>
                      /\ data.daily_income[i].date # NaT
                      /\ DateOf(data.daily_income[i].date) \in start_date..end_date

\* A "Last 7 Days" view that holds a row dated 7 days before the latest date.
C24_Witness ==
    /\ pc = "done"
    /\ widgets.date_preset = "Last 7 Days"
    /\ widgets.month_preset = "All"
    /\ \E j \in 1..Len(filtered_data.daily_income) :
          DateOf(filtered_data.daily_income[j].date) = end_date - 7

\* C25: under "All Time" with the month and the three category filters at
\* "All", each filtered table is the loaded table in full.
C25_AllTimeKeepsEveryRow ==
    (/\ pc = "done"
     /\ widgets.date_preset = "All Time"
     /\ widgets.month_preset = "All"
     /\ widgets.selected_type = "All"
     /\ widgets.selected_company = "All"
     /\ widgets.selected_expense = "All") =>
        /\ filtered_data.daily_income = data.daily_income
        /\ filtered_data.inventory = data.inventory_purchases
        /\ filtered_data.expenses = data.expenses

\* The tier a status of the 'KPI Metrics' sheet names.
StatusTier(status) ==
    CASE status \in {"Healthy", "Good", "Optimal"} -> "healthy"
      [] status \in {"Needs Improvement", "Warning"} -> "warning"
      [] OTHER -> "critical"

\* C26: the status the complete report writes for profit_margin,
\* expense_ratio and purchase_to_income_ratio is of the same tier as the
\* notice the same run shows for it.
C26_ReportStatusMatchesNotice ==
    tabs.export = "Generate Complete Dashboard Report" =>
        \A indicator \in {"profit", "expense", "inventory"} :
            StatusTier(tabs.sheets.status[indicator]) = kpi.notices[indicator]

\* The sum of a column of the series handed to the forecast.
SeriesSum(column) ==
    SumSeq([i \in 1..Len(tabs.daily_metrics) |-> tabs.daily_metrics[i][column]])

\* C27: the series handed to the forecast sum to the Overview's totals:
\* 'expenses' to total_expenses, 'purchases' to total_purchases and
\* 'net_profit' to net_profit.
C27_SeriesConserveTotals ==
    tabs.daily_metrics # <<>> =>
        /\ FEq(SeriesSum("expenses"), kpi.total_expenses)
        /\ FEq(SeriesSum("purchases"), kpi.total_purchases)
        /\ FEq(SeriesSum("net_profit"), kpi.net_profit)

\* C28: in a run that got to the Search tab, every search result is a row of
\* the filtered inventory that satisfies the search predicates in force (the
\* text of the "Invoice ID" box, the amount bounds), so the results are no
\* more than the filtered inventory rows; and a text in the "Invoice ID" box
\* does not make the run raise.
C28_SearchSubsetNoRaise ==
    (pc = "done" /\ ReachedSearch(tabs.stop)) =>
        /\ \A i \in 1..Len(tabs.search_results) :
              /\ \E j \in 1..Len(filtered_data.inventory) :
                    filtered_data.inventory[j] = tabs.search_results[i]
              /\ widgets.invoice_id # <<>> =>
                    Contains(tabs.search_results[i].Invoice_ID, widgets.invoice_id)
              /\ FLe(Num(0), tabs.search_results[i].Invoice_Amount)
              /\ FLe(tabs.search_results[i].Invoice_Amount,
                     MaxAmount(filtered_data.inventory))
        /\ Len(tabs.search_results) - Len(filtered_data.inventory) <= 0
        /\ widgets.invoice_id # <<>> => tabs.stop = "end"

\* C29: under "Custom" the window is the two dates of the date picker when
\* it holds two, and [minimum, maximum daily-income date] when it holds
\* fewer; the tables are filtered by that window.
C29_CustomWindowFallback ==
    (pc = "done" /\ widgets.date_preset = "Custom") =>
        /\ Len(widgets.date_range) = 2 =>
              start_date = widgets.date_range[1] /\ end_date = widgets.date_range[2]
        /\ Len(widgets.date_range) < 2 =>
              /\ start_date = MinDay(data.daily_income)
              /\ end_date = MaxDay(data.daily_income)
        /\ filtered_data = FilterTables(data, start_date, end_date, widgets)

\* A run under "Custom" with one date picked, over daily-income rows of
\* more than one day.
C29_Witness ==
    /\ pc = "done"
    /\ widgets.date_preset = "Custom"
    /\ Len(widgets.date_range) = 1
    /\ start_date < end_date
    /\ filtered_data.daily_income # <<>>

\* C30: for every filtered daily-income table that holds a row, line 900
\* does not raise: each row gets one of the four labels and the run goes on
\* to the tabs after the Revenue tab, the Search tab included.
C30_SegmentationCompletes ==
    (pc = "done" /\ filtered_data.daily_income # <<>>) =>
        /\ tabs.stop # "segments"
        /\ Len(tabs.revenue_segment) = Len(filtered_data.daily_income)
        /\ \A i \in 1..Len(tabs.revenue_segment) :
              \E j \in 1..4 : tabs.revenue_segment[i] = SegmentLabels[j]
        /\ ReachedSearch(tabs.stop)

====
